---- MODULE Spec2Model ----
(***************************************************************************)
(* Model of nym-wallet/src/components/Accounts/ShowMnemonic.tsx: a React   *)
(* component holding two state hooks (showMnemonic, mnemonic), one effect  *)
(* on [showMnemonic], a click handler and an asynchronous lookup.          *)
(*                                                                         *)
(* Optional values (string | undefined) are <<>> for undefined and <<s>>   *)
(* for the string s, so that the empty string and undefined stay distinct. *)
(* The event loop is modelled as the browser runs it: a click and a timer  *)
(* callback are tasks; the continuation of an await on a resolved promise  *)
(* is a microtask and runs before the next task; the passive effect of a   *)
(* committed render is flushed before the next event is handled.           *)
(***************************************************************************)
EXTENDS Naturals, Sequences, FiniteSets

VARIABLES accounts, accountName, showMnemonic, mnemonic, deps,
          timers, microtasks, ancestorClicks, clicks, lastClick, revealClicks

vars == <<accounts, accountName, showMnemonic, mnemonic, deps,
          timers, microtasks, ancestorClicks, clicks, lastClick, revealClicks>>

\* ---------------------------------------------------------------- bounds
MaxAccounts == 2
MaxClicks == 4

\* ---------------------------------------------------------------- values
Undefined == <<>>
Some(s) == <<s>>

\* JavaScript truthiness of a string | undefined
Truthy(v) == IF v = Undefined THEN FALSE ELSE v[1] # ""

\* the account identifiers the parent may pass as the prop
AccountNames == {"alice", "ghost", ""}
\* the records of ./mocks: a name and a mnemonic, both strings
RecordNames == {"alice", "bob"}
Mnemonics == {"apple banana cherry", "delta echo", ""}
AccountRecords == [name : RecordNames, mnemonic : Mnemonics]
AccountLists == UNION {[1..n -> AccountRecords] : n \in 0..MaxAccounts}

\* ---------------------------------------------------------------- lookup
\* accounts.find((acc) => acc.name === accountName): the first match
RECURSIVE find(_, _, _)
find(accs, name, i) ==
  IF i > Len(accs) THEN Undefined
  ELSE IF accs[i].name = name THEN Some(accs[i])
  ELSE find(accs, name, i + 1)

\* a lookup that takes the first record whatever its name
fetchMnemonic_First(accs, name) ==
  IF Len(accs) > 0
    THEN [arg |-> name, settle |-> "resolve", value |-> accs[1].mnemonic, via |-> "timer"]
    ELSE [arg |-> name, settle |-> "resolve", value |-> "n/a", via |-> "microtask"]

\* a lookup that resolves with the wrong field of the record
fetchMnemonic_Name(accs, name) ==
  LET account == find(accs, name, 1) IN
    IF account # Undefined
      THEN [arg |-> name, settle |-> "resolve", value |-> account[1].name, via |-> "timer"]
      ELSE [arg |-> name, settle |-> "resolve", value |-> "n/a", via |-> "microtask"]

\* a lookup that rejects when no record matches
fetchMnemonic_Rejects(accs, name) ==
  LET account == find(accs, name, 1) IN
    IF account # Undefined
      THEN [arg |-> name, settle |-> "resolve", value |-> account[1].mnemonic, via |-> "timer"]
      ELSE [arg |-> name, settle |-> "reject", value |-> "n/a", via |-> "microtask"]

\* fetchMnemonic: the promise it returns, as the way it settles, the value
\* it settles with, and whether it settles from a timer or at once
fetchMnemonic(accs, name) ==
  LET account == find(accs, name, 1) IN
    IF account # Undefined
      THEN [arg |-> name, settle |-> "resolve", value |-> account[1].mnemonic, via |-> "timer"]
      ELSE [arg |-> name, settle |-> "resolve", value |-> "n/a", via |-> "microtask"]

\* ---------------------------------------------------------------- render
RenderLabel(show) == (IF Truthy(show) THEN "Hide" ELSE "Show") \o " mnemonic"

\* {mnemonic && <Typography variant="caption">{mnemonic}</Typography>}
RenderText(mn) == IF Truthy(mn) THEN mn ELSE Undefined

Render == [label |-> RenderLabel(showMnemonic), text |-> RenderText(mnemonic)]

\* ---------------------------------------------------------------- click
\* a handler that stores a flag instead of the account name
onClick_StoresFlag(e, show, name) ==
  [e |-> [e EXCEPT !.propagationStopped = TRUE],
   show |-> IF ~Truthy(show) THEN Some("true") ELSE Undefined]

\* a handler that forgets e.stopPropagation()
onClick_NoStop(e, show, name) ==
  [e |-> e, show |-> IF ~Truthy(show) THEN Some(name) ELSE Undefined]

\* the onClick handler: the event after it, and the next reveal state
onClick(e, show, name) ==
  [e |-> [e EXCEPT !.propagationStopped = TRUE],
   show |-> IF ~Truthy(show) THEN Some(name) ELSE Undefined]

\* the effect of the last committed render has not run yet
EffectPending == IF deps = Undefined THEN TRUE ELSE deps[1] # showMnemonic

\* no callback is waiting to run before the next task
Idle == ~EffectPending /\ microtasks = <<>>

Init ==
  /\ accounts \in AccountLists
  /\ accountName \in AccountNames
  /\ showMnemonic = Undefined
  /\ mnemonic = Undefined
  /\ deps = Undefined
  /\ timers = <<>>
  /\ microtasks = <<>>
  /\ ancestorClicks = 0
  /\ clicks = 0
  /\ lastClick = "none"
  /\ revealClicks = 0

\* a click handler that also clears the mnemonic value itself
Click_ClearsMnemonic ==
  /\ Idle
  /\ clicks < MaxClicks
  /\ LET r == onClick([propagationStopped |-> FALSE], showMnemonic, accountName) IN
       /\ showMnemonic' = r.show
       /\ ancestorClicks' = IF r.e.propagationStopped THEN ancestorClicks
                            ELSE ancestorClicks + 1
  /\ lastClick' = IF ~Truthy(showMnemonic) THEN "show" ELSE "hide"
  /\ clicks' = clicks + 1
  /\ revealClicks' = IF ~Truthy(showMnemonic) THEN revealClicks + 1 ELSE revealClicks
  /\ mnemonic' = Undefined
  /\ UNCHANGED <<accounts, accountName, deps, timers, microtasks>>

\* a click on the label: the handler, then the bubbling to the ancestor
Click ==
  /\ Idle
  /\ clicks < MaxClicks
  /\ LET r == onClick([propagationStopped |-> FALSE], showMnemonic, accountName) IN
       /\ showMnemonic' = r.show
       /\ ancestorClicks' = IF r.e.propagationStopped THEN ancestorClicks
                            ELSE ancestorClicks + 1
  /\ lastClick' = IF ~Truthy(showMnemonic) THEN "show" ELSE "hide"
  /\ clicks' = clicks + 1
  /\ revealClicks' = IF ~Truthy(showMnemonic) THEN revealClicks + 1 ELSE revealClicks
  /\ UNCHANGED <<accounts, accountName, mnemonic, deps, timers, microtasks>>

\* the effect on [showMnemonic], run after mount and after each change
Effect ==
  /\ EffectPending
  /\ deps' = Some(showMnemonic)
  /\ IF Truthy(showMnemonic)
       THEN LET p == fetchMnemonic(accounts, accountName) IN
              /\ timers' = IF p.via = "timer" THEN Append(timers, p) ELSE timers
              /\ microtasks' = IF p.via = "microtask" THEN Append(microtasks, p)
                               ELSE microtasks
              /\ UNCHANGED mnemonic
       ELSE /\ mnemonic' = Undefined
            /\ UNCHANGED <<timers, microtasks>>
  /\ UNCHANGED <<accounts, accountName, showMnemonic, ancestorClicks, clicks,
                 lastClick, revealClicks>>

\* a completion that stores the value only while the toggle is revealed
Settle_Guarded(p) ==
  IF p.settle = "resolve" /\ Truthy(showMnemonic) THEN Some(p.value) ELSE mnemonic

\* the rest of getMnemonic after the await
Settle(p) == IF p.settle = "resolve" THEN Some(p.value) ELSE mnemonic

\* setTimeout(() => res(account.mnemonic), 0) fires; timers fire in order
TimerFires ==
  /\ Idle
  /\ timers # <<>>
  /\ mnemonic' = Settle(Head(timers))
  /\ timers' = Tail(timers)
  /\ UNCHANGED <<accounts, accountName, showMnemonic, deps, microtasks,
                 ancestorClicks, clicks, lastClick, revealClicks>>

\* the await on an already resolved promise continues
MicrotaskRuns ==
  /\ ~EffectPending
  /\ microtasks # <<>>
  /\ mnemonic' = Settle(Head(microtasks))
  /\ microtasks' = Tail(microtasks)
  /\ UNCHANGED <<accounts, accountName, showMnemonic, deps, timers,
                 ancestorClicks, clicks, lastClick, revealClicks>>

Next == Click \/ Effect \/ TimerFires \/ MicrotaskRuns

Spec == Init /\ [][Next]_vars

\* a prop change that runs the effect again, as if it depended on accountName
ChangeProp_Refetch ==
  /\ Idle
  /\ accountName' \in AccountNames \ {accountName}
  /\ IF Truthy(showMnemonic)
       THEN LET p == fetchMnemonic(accounts, accountName') IN
              /\ timers' = IF p.via = "timer" THEN Append(timers, p) ELSE timers
              /\ microtasks' = IF p.via = "microtask" THEN Append(microtasks, p)
                               ELSE microtasks
              /\ UNCHANGED mnemonic
       ELSE /\ mnemonic' = Undefined
            /\ UNCHANGED <<timers, microtasks>>
  /\ UNCHANGED <<accounts, showMnemonic, deps, ancestorClicks, clicks,
                 lastClick, revealClicks>>

\* the parent renders the component again with another accountName: the
\* dependency array [showMnemonic] is unchanged, so no effect is scheduled
ChangeProp ==
  /\ Idle
  /\ accountName' \in AccountNames \ {accountName}
  /\ UNCHANGED <<accounts, showMnemonic, mnemonic, deps, timers, microtasks,
                 ancestorClicks, clicks, lastClick, revealClicks>>

NextProps == Click \/ Effect \/ TimerFires \/ MicrotaskRuns \/ ChangeProp

\* the component under a parent that may change the accountName prop
SpecProps == Init /\ [][NextProps]_vars

TypeOK ==
  /\ accounts \in AccountLists
  /\ accountName \in AccountNames
  /\ showMnemonic \in {Undefined} \cup {Some(n) : n \in AccountNames}
  /\ mnemonic \in {Undefined} \cup {Some(m) : m \in Mnemonics \cup {"n/a"}}
  /\ ancestorClicks \in Nat
  /\ clicks \in 0..MaxClicks
  /\ lastClick \in {"none", "show", "hide"}
  /\ revealClicks \in 0..clicks

\* timers fire, microtasks run and React flushes every effect it scheduled
FairSpec ==
  Spec /\ WF_vars(Effect) /\ WF_vars(TimerFires) /\ WF_vars(MicrotaskRuns)

\* ---------------------------------------------------------------- claims
\* every promise handed out by fetchMnemonic and not yet settled
InFlight == timers \o microtasks

\* nothing is left to run: effects flushed, no lookup in flight
Quiescent == Idle /\ timers = <<>>

HasRecord(name) == \E i \in 1..Len(accounts) : accounts[i].name = name

\* the matching record, as the first of the list with that name
FirstRecord(name) ==
  accounts[CHOOSE i \in 1..Len(accounts) :
             /\ accounts[i].name = name
             /\ \A j \in 1..(i - 1) : accounts[j].name # name]

\* the account has a matching record and its mnemonic is not the empty string
HasNonEmptyMnemonic(name) ==
  IF HasRecord(name) THEN FirstRecord(name).mnemonic # "" ELSE FALSE

InitialRender == [label |-> "Show mnemonic", text |-> Undefined]

\* C1: whenever the effect of the last render has run, a mnemonic value is
\* held and rendered only if the reveal state is "revealed": while the reveal
\* state is "not revealed" no mnemonic text is held.
C1_MnemonicOnlyWhenRevealed ==
  (showMnemonic = Undefined /\ ~EffectPending) => ~Truthy(mnemonic)

\* C2: after a hide click (and the effect it triggers), no render shows the
\* mnemonic text until the next reveal click.
C2_HideRemovesText ==
  (lastClick = "hide" /\ ~EffectPending) => Render.text = Undefined

\* C3 (as stated): once a reveal click for an account with a matching record
\* has run to completion, the render shows "Hide mnemonic" and that record's
\* mnemonic string, whatever the string is.
C3_RevealShowsAnyMnemonic ==
  (Quiescent /\ lastClick = "show" /\ HasRecord(accountName))
    => Render = [label |-> "Hide mnemonic",
                 text |-> Some(FirstRecord(accountName).mnemonic)]

\* C3 (amended): a reveal click for an account whose matching record has a
\* non-empty mnemonic, followed by no further click, leads to a render that
\* shows "Hide mnemonic" and exactly that record's mnemonic string.
C3_RevealShowsRecordMnemonic ==
  \A n \in 1..MaxClicks :
    (/\ clicks = n /\ lastClick = "show"
     /\ HasNonEmptyMnemonic(accountName))
      ~> (\/ clicks # n
          \/ IF HasRecord(accountName)
               THEN Render = [label |-> "Hide mnemonic",
                              text |-> Some(FirstRecord(accountName).mnemonic)]
               ELSE FALSE)

C3_Witness ==
  /\ lastClick = "show"
  /\ HasNonEmptyMnemonic(accountName)
  /\ Quiescent
  /\ Render = [label |-> "Hide mnemonic",
               text |-> Some(FirstRecord(accountName).mnemonic)]

\* C4: once a click on the hidden component, for an account identifier with
\* no matching record (the empty string included), has run to completion,
\* the render shows "Hide mnemonic" and "n/a".
C4_RevealShowsNotAvailable ==
  (Quiescent /\ lastClick = "show" /\ ~HasRecord(accountName))
    => Render = [label |-> "Hide mnemonic", text |-> Some("n/a")]

\* C5: every click toggles the reveal state: absent becomes "revealed for
\* accountName", present becomes absent.
C5_UnconditionalToggle ==
  [][clicks' # clicks =>
       IF showMnemonic = Undefined
         THEN showMnemonic' = Some(accountName)
         ELSE showMnemonic' = Undefined]_vars

\* C6: after the first two clicks (reveal, then hide) the render output is
\* the initial one and stays so while no further click occurs, whenever the
\* lookup completes.
C6_TwoClicksRestoreInitialRender ==
  (clicks = 2 /\ ~EffectPending) => Render = InitialRender

\* C7: the label is "Show mnemonic" exactly when the reveal state is absent
\* and "Hide mnemonic" exactly when it is "revealed for an account".
C7_LabelMatchesRevealState ==
  Render.label = IF showMnemonic = Undefined THEN "Show mnemonic"
                 ELSE "Hide mnemonic"

\* C8: no click on the label ever reaches the ancestor's click handler.
C8_NoAncestorClick == ancestorClicks = 0

C8_Witness == clicks >= 2 /\ lastClick = "hide" /\ ancestorClicks = 0

\* C9: every lookup resolves, with the mnemonic of the matching record or
\* with "n/a" when no record matches, and the component stores the value a
\* lookup settles with, "n/a" like any other.
C9_LookupResolves ==
  [][/\ \A k \in 1..Len(InFlight') :
          LET p == InFlight'[k] IN
            /\ p.settle = "resolve"
            /\ p.value = IF HasRecord(p.arg) THEN FirstRecord(p.arg).mnemonic
                         ELSE "n/a"
     /\ Len(timers') < Len(timers) => mnemonic' = Some(Head(timers).value)
     /\ Len(microtasks') < Len(microtasks)
          => mnemonic' = Some(Head(microtasks).value)]_vars

C9_Witness ==
  /\ ~HasRecord(accountName)
  /\ showMnemonic = Some(accountName)
  /\ InFlight = <<>>
  /\ mnemonic = Some("n/a")

\* the state of the three-state machine a concrete state stands for
AbsState ==
  IF showMnemonic = Undefined
    THEN IF ~Truthy(mnemonic) \/ EffectPending THEN "Hidden" ELSE "None"
    ELSE IF mnemonic = Undefined THEN "Revealing" ELSE "Revealed"

AbsTransitions ==
  {<<"Hidden", "click", "Revealing">>, <<"Revealing", "lookup", "Revealed">>,
   <<"Revealed", "click", "Hidden">>, <<"Revealing", "click", "Hidden">>}

\* C10: every step of the component is a step (or a stuttering step) of the
\* machine Hidden / Revealing / Revealed, and every state maps to one of the
\* three.
C10_RefinesThreeStates ==
  [][/\ AbsState' # "None"
     /\ \/ AbsState' = AbsState
        \/ <<AbsState,
             IF clicks' # clicks THEN "click"
             ELSE IF Len(InFlight') < Len(InFlight) THEN "lookup"
             ELSE "effect",
             AbsState'>> \in AbsTransitions]_vars

\* C11: a hide click does not cancel the lookups in flight, and a lookup
\* that completes while the reveal state is "not revealed" stores its value
\* all the same, leaving the label "Show mnemonic" over a stored mnemonic.
C11_StaleCompletionOverwrites ==
  [][/\ clicks' # clicks => InFlight' = InFlight
     /\ (showMnemonic = Undefined /\ Len(timers') < Len(timers))
          => /\ mnemonic' = Some(Head(timers).value)
             /\ showMnemonic' = Undefined
             /\ RenderLabel(showMnemonic') = "Show mnemonic"]_vars

C11_Witness ==
  /\ clicks = 2 /\ revealClicks = 1 /\ lastClick = "hide"
  /\ Quiescent
  /\ Render.label = "Show mnemonic"
  /\ mnemonic # Undefined
  /\ Render.text # Undefined

\* C12: while the lookup issued by the latest reveal is in flight (queues are
\* first in, first out, so it is while any lookup is in flight after the
\* effect of a reveal click), no render shows a mnemonic value.
C12_NoTextWhileRevealing ==
  (lastClick = "show" /\ Truthy(showMnemonic) /\ ~EffectPending /\ InFlight # <<>>)
    => Render.text = Undefined

\* C13: the reveal state changes only in a click; a click leaves the
\* mnemonic value unchanged; the mnemonic value changes only when a lookup
\* completes or when the effect clears it after a change to "not revealed".
C13_SingleWriters ==
  [][/\ showMnemonic' # showMnemonic => clicks' # clicks
     /\ clicks' # clicks => mnemonic' = mnemonic
     /\ mnemonic' # mnemonic
          => \/ Len(InFlight') < Len(InFlight)
             \/ /\ deps' # deps
                /\ showMnemonic = Undefined
                /\ mnemonic' = Undefined]_vars

C13_Witness ==
  lastClick = "hide" /\ EffectPending /\ showMnemonic = Undefined /\ Truthy(mnemonic)

\* C14: a click can always be handled (as soon as the callbacks already
\* scheduled have run), and once the work of a reveal click has run to
\* completion the component is Revealed, never stuck in Revealing.
C14_NoTerminalState ==
  /\ (Idle /\ clicks < MaxClicks) => ENABLED Click
  /\ (Quiescent /\ lastClick = "show") => AbsState = "Revealed"

\* C15: each run of the effect after a change of the reveal state to
\* "revealed for an account" issues exactly one lookup, a run at mount or
\* after a change to "not revealed" issues none and clears the mnemonic, no
\* other step issues a lookup, a lookup leaves the queues only by completing,
\* and the lookups in flight never outnumber the reveal clicks.
C15_OneLookupPerReveal ==
  [][/\ deps' # deps
          => IF showMnemonic # Undefined
               THEN Len(InFlight') = Len(InFlight) + 1
               ELSE InFlight' = InFlight /\ mnemonic' = Undefined
     /\ deps' = deps => Len(InFlight') <= Len(InFlight)
     /\ Len(InFlight') < Len(InFlight) => mnemonic' # Undefined
     /\ Len(InFlight') <= revealClicks']_vars

\* what the lookup contract promises for an account identifier
LookupResult(name) ==
  IF HasRecord(name) THEN FirstRecord(name).mnemonic ELSE "n/a"

\* C16 (as stated): with the last click leaving the component revealed and
\* every lookup completed, the rendered mnemonic text is the lookup result
\* for the account identifier.
C16_SettledRenderIsLookupResult ==
  (Quiescent /\ lastClick = "show" /\ Truthy(showMnemonic))
    => Render.text = Some(LookupResult(accountName))

\* C16 (amended): with the last click leaving the component revealed and
\* every lookup completed, stale ones included, the stored mnemonic value is
\* the lookup result for the account identifier, and it is the rendered text
\* whenever it is not the empty string.
C16_SettledValueIsLookupResult ==
  (Quiescent /\ lastClick = "show" /\ Truthy(showMnemonic))
    => /\ mnemonic = Some(LookupResult(accountName))
       /\ LookupResult(accountName) # ""
            => Render.text = Some(LookupResult(accountName))

C16_Witness ==
  /\ Quiescent /\ lastClick = "show" /\ Truthy(showMnemonic)
  /\ revealClicks >= 2
  /\ HasRecord(accountName)
  /\ LookupResult(accountName) # ""
  /\ Render.text = Some(LookupResult(accountName))

\* C17: with a fixed account identifier, the reveal state is absent or that
\* identifier, and the mnemonic value is absent or the lookup result for it.
C17_OnlyOwnValuesStored ==
  /\ showMnemonic \in {Undefined, Some(accountName)}
  /\ mnemonic \in {Undefined, Some(LookupResult(accountName))}

C17_Witness ==
  /\ clicks >= 3
  /\ showMnemonic = Some(accountName)
  /\ mnemonic = Some(LookupResult(accountName))

====
